---- MODULE Spec2Model ----
(***************************************************************************)
(* Model of the voice screening agent of src/main.py: the dialogue state   *)
(* machine get_reply, the answer quality gate check_story_quality, the     *)
(* session registry and the two request handlers initiate_call and         *)
(* twilio_webhook.  Texts are sequences of one-character strings, so that  *)
(* lower-casing, trimming, substring search and splitting are computed.    *)
(***************************************************************************)
EXTENDS Integers, Sequences, FiniteSets, TLC

VARIABLES sessions, twilio_client, last

vars == <<sessions, twilio_client, last>>

(***************************************************************************)
(* Bounds of the model.                                                    *)
(***************************************************************************)
\* initiate_call is accepted at most MaxSessions times (uuid4 ids never run out)
MaxSessions == 1

(***************************************************************************)
(* Text primitives: str.lower, str.strip, the `in` substring test,         *)
(* re.split(r'[.!?]+', .) and str.split().                                 *)
(***************************************************************************)
Whitespace == {" ", "\t", "\n"}

Terminators == {".", "!", "?"}

LowerChar(c) ==
    CASE c = "A" -> "a" [] c = "B" -> "b" [] c = "C" -> "c" [] c = "D" -> "d"
      [] c = "E" -> "e" [] c = "F" -> "f" [] c = "G" -> "g" [] c = "H" -> "h"
      [] c = "I" -> "i" [] c = "J" -> "j" [] c = "K" -> "k" [] c = "L" -> "l"
      [] c = "M" -> "m" [] c = "N" -> "n" [] c = "O" -> "o" [] c = "P" -> "p"
      [] c = "Q" -> "q" [] c = "R" -> "r" [] c = "S" -> "s" [] c = "T" -> "t"
      [] c = "U" -> "u" [] c = "V" -> "v" [] c = "W" -> "w" [] c = "X" -> "x"
      [] c = "Y" -> "y" [] c = "Z" -> "z" [] OTHER -> c

\* variant: the case of the input is kept
LowerKeepsCase(text) == text

Lower(text) == [i \in 1..Len(text) |-> LowerChar(text[i])]

RECURSIVE LStrip(_)
LStrip(text) ==
    IF text # <<>> /\ Head(text) \in Whitespace THEN LStrip(Tail(text)) ELSE text

RECURSIVE RStrip(_)
RStrip(text) ==
    IF text # <<>> /\ text[Len(text)] \in Whitespace
    THEN RStrip(SubSeq(text, 1, Len(text) - 1))
    ELSE text

Strip(text) == RStrip(LStrip(text))

\* Python's `sub in text`
Contains(sub, text) ==
    \E i \in 1..(Len(text) - Len(sub) + 1) : SubSeq(text, i, i + Len(sub) - 1) = sub

\* the n-th smallest element of a set of positions
Nth(positions, n) ==
    CHOOSE i \in positions : Cardinality({j \in positions : j <= i}) = n

\* re.split(r'[.!?]+', text): the fragments between maximal runs of terminators,
\* the empty leading and trailing fragments included.
ReSplit(text) ==
    LET RunStarts == { i \in 1..Len(text) :
                          text[i] \in Terminators
                          /\ (i = 1 \/ text[i - 1] \notin Terminators) }
        RunEnds   == { i \in 1..Len(text) :
                          text[i] \in Terminators
                          /\ (i = Len(text) \/ text[i + 1] \notin Terminators) }
        runs      == Cardinality(RunStarts)
    IN  [ k \in 1..(runs + 1) |->
            SubSeq(text,
                   IF k = 1 THEN 1 ELSE Nth(RunEnds, k - 1) + 1,
                   IF k = runs + 1 THEN Len(text) ELSE Nth(RunStarts, k) - 1) ]

\* str.split(): the maximal runs of non-whitespace characters
Words(text) ==
    LET WordStarts == { i \in 1..Len(text) :
                           text[i] \notin Whitespace
                           /\ (i = 1 \/ text[i - 1] \in Whitespace) }
        WordEnds   == { i \in 1..Len(text) :
                           text[i] \notin Whitespace
                           /\ (i = Len(text) \/ text[i + 1] \in Whitespace) }
    IN  [ k \in 1..Cardinality(WordStarts) |->
            SubSeq(text, Nth(WordStarts, k), Nth(WordEnds, k)) ]

RECURSIVE Rep(_, _)
Rep(text, n) == IF n = 0 THEN <<>> ELSE text \o Rep(text, n - 1)

(***************************************************************************)
(* check_story_quality                                                     *)
(***************************************************************************)
MIN_SENTENCES == 8

MIN_WORDS == 50

\* variant: the thresholds must be exceeded
check_story_quality_strict(text) ==
    LET fragments == ReSplit(text)
        sentences == SelectSeq(fragments, LAMBDA s : Strip(s) # <<>>)
    IN  Len(sentences) > MIN_SENTENCES \/ Len(Words(text)) > MIN_WORDS

check_story_quality(text) ==
    LET fragments == ReSplit(text)
        sentences == SelectSeq(fragments, LAMBDA s : Strip(s) # <<>>)
    IN  Len(sentences) >= MIN_SENTENCES \/ Len(Words(text)) >= MIN_WORDS

(***************************************************************************)
(* Keyword sets of get_reply, as texts.                                    *)
(***************************************************************************)
NEGATIVE ==
    { <<"n", "o">>, <<"n", "o", "t">>, <<"n", "a", "h">>, <<"n", "o", "p", "e">> }

AFFIRMATIVE ==
    { <<"y", "e", "s">>, <<"y", "e", "a", "h">>, <<"s", "u", "r", "e">>,
      <<"i", "n", "t", "e", "r", "e", "s", "t", "e", "d">>, <<"o", "k">> }

FRESHER ==
    { <<"f", "r", "e", "s", "h", "e", "r">>, <<"f", "r", "e", "s", "h">>,
      <<"s", "t", "u", "d", "e", "n", "t">> }

EXPERIENCED ==
    { <<"e", "x", "p", "e", "r", "i", "e", "n", "c", "e">>,
      <<"e", "x", "p", "e", "r", "i", "e", "n", "c", "e", "d">>,
      <<"w", "o", "r", "k", "e", "d">> }

\* any(word in user_lower for word in keywords)
AnyIn(keywords, user_lower) == \E word \in keywords : Contains(word, user_lower)

(***************************************************************************)
(* The prompts, named; each is the literal of the source.                  *)
(***************************************************************************)
OPENING_PITCH == "Hi, this is Riya from Futuresoft Consultancy. We are hiring voice and chat profiles for companies like British Telecom, Teleperformance, and Wipro. Are you interested?"

DECLINE_LINE == "I understand. Thank you for your time. Have a great day!"

ASK_EXPERIENCE == "We will surely help you with the same. Could you please confirm me if you are Fresher OR Experienced?"

REASK_INTEREST == "Could you please confirm if you are interested? Just say Yes or No."

ASK_QUALIFICATION == "Now, what's your highest qualification like Graduate, Undergraduate, or Graduation drop-out?"

ASK_EXP_DETAILS == "Now, please confirm your highest qualification and experience. Mention your job responsibility part clearly."

REASK_EXPERIENCE == "Could you please clarify - are you a Fresher or Experienced?"

ASK_CUSTOMER_STORY == "That was very impressive. Could you please speak about any memorable interaction with customer within 10 to 12 sentences. You can start with, 'Once a customer called me for issue related to...' And your time starts now."

ASK_FESTIVAL_STORY == "Acknowledgment to statement. Could you please speak about any latest festival you celebrated like Diwali, Holi, Christmas or Eid in 10 to 12 sentences. Start with, 'I celebrated my last Diwali along with family...' And your time starts now."

REJECTION_LINE == "Sorry, we will not be able to help you with job as we hire candidates with good communication skills only."

CUSTOMER_RETRY_PROMPT == "Sorry, you need to speak only 10 to 12 sentences on this topic. It can be done within 15 seconds only. Please speak on this topic now."

FESTIVAL_RETRY_PROMPT == "Sorry, please speak clearly about the festival celebration for 10 to 12 sentences to proceed."

COMPLETED_LINE == "That was amazing, now one of our HR Recruiter will connect you for your further interview process."

CLOSING_LINE == "Thank you for your time. Have a great day!"

PLEASE_REPEAT == "I'm sorry, could you please repeat that?"

SESSION_EXPIRED == "Sorry, this session has expired. Please call again."

EMPTY_STORY_PROMPT == "Sorry, you need to speak on this topic. Please try now."

DIDNT_CATCH == "I didn't catch that. Could you please speak up?"

(***************************************************************************)
(* ConversationState and SessionData                                       *)
(***************************************************************************)
ConversationState ==
    { "GREETING", "INTEREST_CHECK", "EXPERIENCE_CHECK", "FRESHER_QUALIFICATION",
      "EXP_DETAILS", "CUSTOMER_STORY", "CUSTOMER_RETRY", "FESTIVAL_STORY",
      "FESTIVAL_RETRY", "COMPLETED", "REJECTED" }

None == "None"

NoUrl == <<>>

NoAnswers == <<>>

SessionData(phone_number) ==
    [ conversation      |-> <<>>,
      state             |-> "GREETING",
      candidate_type    |-> None,
      retry_count       |-> 0,
      answers           |-> NoAnswers,
      phone_number      |-> phone_number,
      current_audio_url |-> NoUrl ]

\* session.answers[key] = user_input
SetAnswer(answers, key, user_input) == (key :> user_input) @@ answers

(***************************************************************************)
(* The transcripts a recording can yield in this model.                    *)
(***************************************************************************)
\* eight short sentences: sufficient by the sentence count
Story == Rep(<<"a", ".", " ">>, MIN_SENTENCES)

\* affirmative, and a fresher
YesFresher == <<"Y", "e", "s", " ", "f", "r", "e", "s", "h", "e", "r">>

\* a decline that also holds an affirmative keyword, and an experienced one
NotInterestedWorked ==
    <<"n", "o", "t", " ", "i", "n", "t", "e", "r", "e", "s", "t", "e", "d", ",",
      " ", "w", "o", "r", "k", "e", "d">>

Texts == { <<>>, <<" ">>, YesFresher, NotInterestedWorked, Story }

\* The values get_reply computes from user_input, tabulated once for Texts.
QualityOf == [t \in Texts |-> check_story_quality(t)]

KeywordSets == {NEGATIVE, AFFIRMATIVE, FRESHER, EXPERIENCED}

MatchOf == [keywords \in KeywordSets, t \in Texts |-> AnyIn(keywords, Strip(Lower(t)))]

\* variant: the quality gate accepts every answer
is_valid_lenient(user_input) == TRUE

\* is_valid = check_story_quality(user_input)
is_valid(user_input) ==
    IF user_input \in Texts THEN QualityOf[user_input] ELSE check_story_quality(user_input)

\* any(word in user_lower for word in keywords), user_lower = user_input.lower().strip()
any_word(keywords, user_input) ==
    IF user_input \in Texts
    THEN MatchOf[keywords, user_input]
    ELSE AnyIn(keywords, Strip(Lower(user_input)))

(***************************************************************************)
(* get_reply: the session after the call and the prompt returned.          *)
(***************************************************************************)
\* variant: the answer is stored but the question is asked again
StoryPassStays(session, key, next_state, prompt, user_input) ==
    [ session |-> [session EXCEPT !.answers = SetAnswer(@, key, user_input)],
      reply   |-> prompt ]

\* variant: accepting an answer forgets the candidate type
StoryPassResetsType(session, key, next_state, prompt, user_input) ==
    [ session |-> [session EXCEPT !.answers = SetAnswer(@, key, user_input),
                                  !.state = next_state,
                                  !.candidate_type = None],
      reply   |-> prompt ]

\* an answer accepted: stored under its key, on to the next question
StoryPass(session, key, next_state, prompt, user_input) ==
    [ session |-> [session EXCEPT !.answers = SetAnswer(@, key, user_input),
                                  !.state = next_state],
      reply   |-> prompt ]

\* variant: the rejection threshold is off by one
StoryFailThresholdOne(session, retry_state, retry_prompt) ==
    LET counted == [session EXCEPT !.retry_count = @ + 1]
    IN  IF counted.retry_count >= 1
        THEN [ session |-> [counted EXCEPT !.state = "REJECTED"],
               reply   |-> REJECTION_LINE ]
        ELSE [ session |-> [counted EXCEPT !.state = retry_state],
               reply   |-> retry_prompt ]

\* variant: a first failure moves to the retry state without a prompt
StoryFailSilent(session, retry_state, retry_prompt) ==
    LET counted == [session EXCEPT !.retry_count = @ + 1]
    IN  IF counted.retry_count >= 2
        THEN [ session |-> [counted EXCEPT !.state = "REJECTED"],
               reply   |-> REJECTION_LINE ]
        ELSE [ session |-> [counted EXCEPT !.state = retry_state],
               reply   |-> "" ]

\* first attempt at a narrative question failed the quality gate
StoryFail(session, retry_state, retry_prompt) ==
    LET counted == [session EXCEPT !.retry_count = @ + 1]
    IN  IF counted.retry_count >= 2
        THEN [ session |-> [counted EXCEPT !.state = "REJECTED"],
               reply   |-> REJECTION_LINE ]
        ELSE [ session |-> [counted EXCEPT !.state = retry_state],
               reply   |-> retry_prompt ]

\* variant: a failed second attempt asks the question again
RetryFailAsksAgain(session) ==
    [ session |-> [session EXCEPT !.state = IF @ = "CUSTOMER_RETRY"
                                            THEN "CUSTOMER_STORY" ELSE "FESTIVAL_STORY"],
      reply   |-> PLEASE_REPEAT ]

\* second attempt failed the quality gate
RetryFail(session) ==
    [ session |-> [session EXCEPT !.state = "REJECTED"], reply |-> REJECTION_LINE ]

\* variant: the closing line also clears the retry count
TerminalReplyClearsCount(session) ==
    [ session |-> [session EXCEPT !.retry_count = 0], reply |-> CLOSING_LINE ]

\* a terminal state: the closing line, nothing else
TerminalReply(session) == [ session |-> session, reply |-> CLOSING_LINE ]

get_reply(session, user_input) ==
    LET current_state == session.state
    IN  CASE current_state = "GREETING" ->
               [ session |-> [session EXCEPT !.state = "INTEREST_CHECK"],
                 reply   |-> OPENING_PITCH ]
          [] current_state = "INTEREST_CHECK" ->
               IF any_word(NEGATIVE, user_input)
               THEN [ session |-> session, reply |-> DECLINE_LINE ]
               ELSE IF any_word(AFFIRMATIVE, user_input)
               THEN [ session |-> [session EXCEPT !.state = "EXPERIENCE_CHECK"],
                      reply   |-> ASK_EXPERIENCE ]
               ELSE [ session |-> session, reply |-> REASK_INTEREST ]
          [] current_state = "EXPERIENCE_CHECK" ->
               IF any_word(FRESHER, user_input)
               THEN [ session |-> [session EXCEPT !.candidate_type = "fresher",
                                                  !.state = "FRESHER_QUALIFICATION"],
                      reply   |-> ASK_QUALIFICATION ]
               ELSE IF any_word(EXPERIENCED, user_input)
               THEN [ session |-> [session EXCEPT !.candidate_type = "experienced",
                                                  !.state = "EXP_DETAILS"],
                      reply   |-> ASK_EXP_DETAILS ]
               ELSE [ session |-> session, reply |-> REASK_EXPERIENCE ]
          [] current_state = "FRESHER_QUALIFICATION" ->
               StoryPass(session, "qualification", "CUSTOMER_STORY",
                         ASK_CUSTOMER_STORY, user_input)
          [] current_state = "EXP_DETAILS" ->
               StoryPass(session, "experience", "CUSTOMER_STORY",
                         ASK_CUSTOMER_STORY, user_input)
          [] current_state = "CUSTOMER_STORY" ->
               IF is_valid(user_input)
               THEN StoryPass(session, "customer_story", "FESTIVAL_STORY",
                              ASK_FESTIVAL_STORY, user_input)
               ELSE StoryFail(session, "CUSTOMER_RETRY", CUSTOMER_RETRY_PROMPT)
          [] current_state = "CUSTOMER_RETRY" ->
               IF is_valid(user_input)
               THEN StoryPass(session, "customer_story", "FESTIVAL_STORY",
                              ASK_FESTIVAL_STORY, user_input)
               ELSE RetryFail(session)
          [] current_state = "FESTIVAL_STORY" ->
               IF is_valid(user_input)
               THEN StoryPass(session, "festival", "COMPLETED",
                              COMPLETED_LINE, user_input)
               ELSE StoryFail(session, "FESTIVAL_RETRY", FESTIVAL_RETRY_PROMPT)
          [] current_state = "FESTIVAL_RETRY" ->
               IF is_valid(user_input)
               THEN StoryPass(session, "festival", "COMPLETED",
                              COMPLETED_LINE, user_input)
               ELSE RetryFail(session)
          [] current_state \in {"REJECTED", "COMPLETED"} ->
               TerminalReply(session)
          [] OTHER ->
               [ session |-> session, reply |-> PLEASE_REPEAT ]

(***************************************************************************)
(* generate_tts: the synthesis request succeeds, returns a non-200 status  *)
(* or raises; the caller sees an audio URL or None.                        *)
(***************************************************************************)
TtsOutcomes == {"ok", "non_success", "exception"}

AudioUrl(session_id) == <<"audio", session_id>>

generate_tts(text, session_id, tts) ==
    IF tts = "ok" THEN AudioUrl(session_id) ELSE NoUrl

(***************************************************************************)
(* twilio_webhook, step by step.                                           *)
(***************************************************************************)
\* The recording of the request: absent, or present with the outcome of the
\* download and transcription.
NoRecording == [kind |-> "none", text |-> <<>>]

FailedRecording == [kind |-> "exception", text |-> <<>>]

ErrorTranscript == [kind |-> "error", text |-> <<>>]

Transcribed(text) == [kind |-> "ok", text |-> text]

\* lines 270-305: user_input of the turn
Transcript(rec) == IF rec.kind = "ok" THEN rec.text ELSE <<>>

\* not user_input or not user_input.strip()
IsBlank(user_input) == user_input = <<>> \/ Strip(user_input) = <<>>

\* variant: an empty transcript is counted but never rejects
EmptyStoryNeverRejects(session) ==
    LET counted == [session EXCEPT !.retry_count = @ + 1]
    IN  [ session |-> [counted EXCEPT !.state =
                          IF counted.state = "CUSTOMER_STORY"
                          THEN "CUSTOMER_RETRY" ELSE "FESTIVAL_RETRY"],
          reply   |-> EMPTY_STORY_PROMPT ]

\* variant: an empty transcript moves to the retry state without being counted
EmptyStorySkipsCount(session) ==
    [ session |-> [session EXCEPT !.state =
                      IF session.state = "CUSTOMER_STORY"
                      THEN "CUSTOMER_RETRY" ELSE "FESTIVAL_RETRY"],
      reply   |-> EMPTY_STORY_PROMPT ]

\* lines 310-320: an empty transcript in CUSTOMER_STORY or FESTIVAL_STORY
EmptyStory(session) ==
    LET counted == [session EXCEPT !.retry_count = @ + 1]
    IN  IF counted.retry_count >= 2
        THEN [ session |-> [counted EXCEPT !.state = "REJECTED"],
               reply   |-> REJECTION_LINE ]
        ELSE [ session |-> [counted EXCEPT !.state =
                               IF counted.state = "CUSTOMER_STORY"
                               THEN "CUSTOMER_RETRY" ELSE "FESTIVAL_RETRY"],
               reply   |-> EMPTY_STORY_PROMPT ]

\* variant: an empty transcript outside the story questions goes to get_reply
ConversationFlowAlwaysReplies(session, user_input) ==
    IF IsBlank(user_input) /\ session.state \in {"CUSTOMER_STORY", "FESTIVAL_STORY"}
    THEN EmptyStory(session)
    ELSE get_reply(session, user_input)

\* variant: an empty transcript on a retry is a failed second attempt
ConversationFlowBlankRetryRejects(session, user_input) ==
    IF IsBlank(user_input)
    THEN IF session.state \in {"CUSTOMER_STORY", "FESTIVAL_STORY"}
         THEN EmptyStory(session)
         ELSE IF session.state \in {"CUSTOMER_RETRY", "FESTIVAL_RETRY"}
         THEN RetryFail(session)
         ELSE [ session |-> session, reply |-> DIDNT_CATCH ]
    ELSE get_reply(session, user_input)

\* lines 308-330: the conversation flow of one turn
ConversationFlow(session, user_input) ==
    IF IsBlank(user_input)
    THEN IF session.state \in {"CUSTOMER_STORY", "FESTIVAL_STORY"}
         THEN EmptyStory(session)
         ELSE [ session |-> session, reply |-> DIDNT_CATCH ]
    ELSE get_reply(session, user_input)

\* lines 332-340: synthesis with fallback; the session keeps the URL
Synthesize(session, reply, session_id, tts) ==
    IF reply # ""
    THEN LET audio_url == generate_tts(reply, session_id, tts)
         IN  [ session   |-> [session EXCEPT !.current_audio_url = audio_url],
               audio_url |-> audio_url ]
    ELSE [ session |-> session, audio_url |-> NoUrl ]

Play(audio_url) == [verb |-> "Play", url |-> audio_url]

Say(text) == [verb |-> "Say", text |-> text]

Record(session_id) ==
    [verb |-> "Record", action |-> <<"/twilio-webhook", session_id>>]

Hangup == [verb |-> "Hangup"]

\* variant: no native fallback when the synthesis failed
SpeechDirectiveNoFallback(reply, audio_url) == Play(audio_url)

\* lines 342-349: play the audio, or say the prompt natively
SpeechDirective(reply, audio_url) ==
    IF audio_url # NoUrl THEN Play(audio_url) ELSE Say(reply)

\* variant: only a completed interview hangs up
ContinuationDirectiveCompletedOnly(session, session_id) ==
    IF session.state # "COMPLETED" THEN Record(session_id) ELSE Hangup

\* lines 351-363: continue or hang up
ContinuationDirective(session, session_id) ==
    IF session.state \notin {"REJECTED", "COMPLETED"}
    THEN Record(session_id)
    ELSE Hangup

\* lines 267-368: a turn on a session of the registry
Turn(session, session_id, rec, tts) ==
    LET flow  == ConversationFlow(session, Transcript(rec))
        synth == Synthesize(flow.session, flow.reply, session_id, tts)
    IN  [ session  |-> synth.session,
          reply    |-> flow.reply,
          response |-> << SpeechDirective(flow.reply, synth.audio_url),
                          ContinuationDirective(synth.session, session_id) >> ]

\* session ids are the positions in the registry; 0 stands for an absent id
NoSessionId == 0

\* not session_id or session_id not in sessions
NotFound(registry, session_id) ==
    session_id = NoSessionId \/ session_id \notin DOMAIN registry

\* variant: an unknown id gets a session registered before the apology
SessionExpiredRegisters(registry) ==
    [ sessions   |-> Append(registry, SessionData(None)),
      response   |-> <<Say(SESSION_EXPIRED)>>,
      stt_called |-> FALSE,
      tts_called |-> FALSE ]

\* lines 262-265: the session is not found
SessionExpired(registry) ==
    [ sessions   |-> registry,
      response   |-> <<Say(SESSION_EXPIRED)>>,
      stt_called |-> FALSE,
      tts_called |-> FALSE ]

\* variant: the dialogue fields are kept once for the whole registry
twilio_webhook_shared(registry, session_id, rec, tts) ==
    IF NotFound(registry, session_id)
    THEN SessionExpired(registry)
    ELSE LET turn == Turn(registry[session_id], session_id, rec, tts)
         IN  [ sessions   |-> [ i \in DOMAIN registry |->
                                  IF i = session_id
                                  THEN turn.session
                                  ELSE [registry[i] EXCEPT
                                           !.state = turn.session.state,
                                           !.retry_count = turn.session.retry_count] ],
               response   |-> turn.response,
               stt_called |-> rec.kind # "none",
               tts_called |-> turn.reply # "" ]

\* twilio_webhook: the registry after the request, the TwiML returned, and whether
\* the transcription and synthesis collaborators were called
twilio_webhook(registry, session_id, rec, tts) ==
    IF NotFound(registry, session_id)
    THEN SessionExpired(registry)
    ELSE LET turn == Turn(registry[session_id], session_id, rec, tts)
         IN  [ sessions   |-> [registry EXCEPT ![session_id] = turn.session],
               response   |-> turn.response,
               stt_called |-> rec.kind # "none",
               tts_called |-> turn.reply # "" ]

\* variant: initiate_call synthesizes the pitch without taking the greeting turn
NewSessionGreetingPending(phone_number, session_id, tts) ==
    [SessionData(phone_number) EXCEPT
        !.current_audio_url = generate_tts(OPENING_PITCH, session_id, tts)]

\* initiate_call, lines 221-229: the new session after its greeting turn
NewSession(phone_number, session_id, tts) ==
    LET opening == get_reply(SessionData(phone_number), <<>>)
    IN  [opening.session EXCEPT
            !.current_audio_url = generate_tts(opening.reply, session_id, tts)]

(***************************************************************************)
(* The inputs of the handlers.                                             *)
(***************************************************************************)
PhoneNumbers == {"+911234567890"}

Recordings ==
    {NoRecording, FailedRecording, ErrorTranscript} \cup {Transcribed(t) : t \in Texts}

SessionIds == 0..(MaxSessions + 1)

(***************************************************************************)
(* The state machine.  sessions is the registry, twilio_client whether the *)
(* Twilio credentials are configured, last the call or webhook request     *)
(* handled last.                                                           *)
(***************************************************************************)
Request(op, found) == [op |-> op, found |-> found]

Init ==
    /\ sessions = <<>>
    /\ twilio_client \in BOOLEAN
    /\ last = Request("none", FALSE)

\* initiate_call with no Twilio credentials: HTTP 500
InitiateCallUnconfigured ==
    /\ ~twilio_client
    /\ last' = Request("initiate_call", FALSE)
    /\ UNCHANGED <<sessions, twilio_client>>

\* initiate_call: create the session, take the greeting turn, place the call
InitiateCall(phone_number, tts) ==
    /\ twilio_client
    /\ Len(sessions) < MaxSessions
    /\ sessions' = Append(sessions, NewSession(phone_number, Len(sessions) + 1, tts))
    /\ last' = Request("initiate_call", TRUE)
    /\ UNCHANGED twilio_client

\* twilio_webhook, lines 262-265: the session id is absent or unknown; the
\* recording of the request is not looked at
TwilioWebhookExpired(session_id) ==
    /\ NotFound(sessions, session_id)
    /\ sessions' = twilio_webhook(sessions, session_id, NoRecording, "ok").sessions
    /\ last' = Request("twilio_webhook", FALSE)
    /\ UNCHANGED twilio_client

\* twilio_webhook, lines 267-368: a turn of a session of the registry
TwilioWebhook(session_id, rec, tts) ==
    /\ ~NotFound(sessions, session_id)
    /\ sessions' = twilio_webhook(sessions, session_id, rec, tts).sessions
    /\ last' = Request("twilio_webhook", TRUE)
    /\ UNCHANGED twilio_client

\* call_status: logs and returns
CallStatus == UNCHANGED vars

Next ==
    \/ InitiateCallUnconfigured
    \/ \E phone_number \in PhoneNumbers, tts \in TtsOutcomes :
           InitiateCall(phone_number, tts)
    \/ \E session_id \in SessionIds : TwilioWebhookExpired(session_id)
    \/ \E session_id \in SessionIds, rec \in Recordings, tts \in TtsOutcomes :
           TwilioWebhook(session_id, rec, tts)
    \/ CallStatus

Spec == Init /\ [][Next]_vars

(***************************************************************************)
(* Vocabulary of the properties.                                           *)
(***************************************************************************)
Terminal == {"COMPLETED", "REJECTED"}

\* the dialogue fields of a session
Core(session) ==
    <<session.state, session.retry_count, session.candidate_type, session.answers>>

\* a transcript the narrative questions reject: blank, or insufficient
RejectedAnswer(rec) ==
    IsBlank(Transcript(rec)) \/ ~check_story_quality(Transcript(rec))

\* the state of a session after a webhook turn with this recording
StateAfter(session_id, rec, tts) ==
    Turn(sessions[session_id], session_id, rec, tts).session.state

\* position of a state in the progression of the interview
Rank(state) ==
    CASE state = "GREETING" -> 0
      [] state = "INTEREST_CHECK" -> 1
      [] state = "EXPERIENCE_CHECK" -> 2
      [] state \in {"FRESHER_QUALIFICATION", "EXP_DETAILS"} -> 3
      [] state = "CUSTOMER_STORY" -> 4
      [] state = "CUSTOMER_RETRY" -> 5
      [] state = "FESTIVAL_STORY" -> 6
      [] state = "FESTIVAL_RETRY" -> 7
      [] state \in Terminal -> 8

(***************************************************************************)
(* C1.  Each narrative question allows one retry before rejection: the     *)
(* first rejected answer (insufficient text given to get_reply, or an      *)
(* empty transcript handled by twilio_webhook) in CUSTOMER_STORY moves the *)
(* session to CUSTOMER_RETRY, and the first rejected answer in             *)
(* FESTIVAL_STORY moves it to FESTIVAL_RETRY, never directly to REJECTED.  *)
(* The code never clears retry_count, so this fails in FESTIVAL_STORY      *)
(* after a customer story that needed its retry.                           *)
(***************************************************************************)
C1_OneRetryPerQuestion ==
    \A session_id \in DOMAIN sessions :
        LET session == sessions[session_id]
        IN  /\ \A rec \in Recordings, tts \in TtsOutcomes :
                  RejectedAnswer(rec) =>
                      /\ session.state = "CUSTOMER_STORY" =>
                             StateAfter(session_id, rec, tts) = "CUSTOMER_RETRY"
                      /\ session.state = "FESTIVAL_STORY" =>
                             StateAfter(session_id, rec, tts) = "FESTIVAL_RETRY"
            /\ \A t \in Texts :
                  ~check_story_quality(t) =>
                      /\ session.state = "CUSTOMER_STORY" =>
                             get_reply(session, t).session.state = "CUSTOMER_RETRY"
                      /\ session.state = "FESTIVAL_STORY" =>
                             get_reply(session, t).session.state = "FESTIVAL_RETRY"

(***************************************************************************)
(* C2.  retry_count counts the failures of the current narrative question  *)
(* only: every session in FESTIVAL_STORY has retry_count 0.  The code      *)
(* keeps the count of the customer story when it moves on.                 *)
(***************************************************************************)
C2_RetryCountClearedOnPass ==
    \A session_id \in DOMAIN sessions :
        sessions[session_id].state = "FESTIVAL_STORY" =>
            sessions[session_id].retry_count = 0

(***************************************************************************)
(* C3.  Over any sequence of initiate_call and twilio_webhook requests a   *)
(* session keeps its state or moves forward in the progression GREETING,   *)
(* INTEREST_CHECK, EXPERIENCE_CHECK, FRESHER_QUALIFICATION or EXP_DETAILS, *)
(* CUSTOMER_STORY, CUSTOMER_RETRY, FESTIVAL_STORY, FESTIVAL_RETRY,         *)
(* COMPLETED or REJECTED; it never moves backward, so each retry state is  *)
(* entered at most once and its question is never returned to.             *)
(***************************************************************************)
C3_Step ==
    /\ DOMAIN sessions \subseteq DOMAIN sessions'
    /\ \A session_id \in DOMAIN sessions :
          \/ sessions'[session_id].state = sessions[session_id].state
          \/ Rank(sessions'[session_id].state) > Rank(sessions[session_id].state)

C3_Monotonic == [][C3_Step]_vars

\* a session that used the retry of a question and went on to complete
C3_Witness ==
    \E session_id \in DOMAIN sessions :
        /\ sessions[session_id].state = "COMPLETED"
        /\ sessions[session_id].retry_count = 1

(***************************************************************************)
(* C4.  retry_count is at most 1 while the state is not REJECTED and never *)
(* exceeds 2, whether the failures are counted by get_reply or by the      *)
(* empty-transcript branch of twilio_webhook.                              *)
(***************************************************************************)
C4_RetryCountBound ==
    \A session_id \in DOMAIN sessions :
        /\ sessions[session_id].retry_count \in 0..2
        /\ sessions[session_id].state # "REJECTED" =>
               sessions[session_id].retry_count <= 1

\* a session rejected on its second counted failure
C4_Witness ==
    \E session_id \in DOMAIN sessions :
        /\ sessions[session_id].state = "REJECTED"
        /\ sessions[session_id].retry_count = 2

(***************************************************************************)
(* C5.  REJECTED in a single turn.  As claimed: from each of               *)
(* CUSTOMER_STORY, CUSTOMER_RETRY, FESTIVAL_STORY and FESTIVAL_RETRY some  *)
(* reachable session and input end the turn in REJECTED, and REJECTED is   *)
(* entered from no other state.  In the code a session in CUSTOMER_STORY   *)
(* always has retry_count 0, so no turn takes it to REJECTED.              *)
(***************************************************************************)
\* the recordings that end a webhook turn of this session in REJECTED
Rejecting(session_id) ==
    { rec \in Recordings :
         \E tts \in TtsOutcomes : StateAfter(session_id, rec, tts) = "REJECTED" }

\* the claim for CUSTOMER_STORY: a session there has an input that rejects it
C5_RejectedFromCustomerStory ==
    \A session_id \in DOMAIN sessions :
        sessions[session_id].state = "CUSTOMER_STORY" =>
            \/ Rejecting(session_id) # {}
            \/ \E t \in Texts :
                   get_reply(sessions[session_id], t).session.state = "REJECTED"

\* As amended: a turn ends in REJECTED from CUSTOMER_RETRY and FESTIVAL_RETRY
\* (every session there has a rejecting input) and from FESTIVAL_STORY (exactly
\* the sessions that already used the customer story's retry), and from no
\* other state, CUSTOMER_STORY included.
C5_RejectedInOneTurn ==
    \A session_id \in DOMAIN sessions :
        LET session == sessions[session_id]
        IN  /\ session.state \in {"CUSTOMER_RETRY", "FESTIVAL_RETRY"} =>
                   Rejecting(session_id) # {}
            /\ session.state = "FESTIVAL_STORY" =>
                   (Rejecting(session_id) # {} <=> session.retry_count = 1)
            /\ session.state \notin
                   {"CUSTOMER_RETRY", "FESTIVAL_STORY", "FESTIVAL_RETRY", "REJECTED"} =>
                   /\ Rejecting(session_id) = {}
                   /\ \A t \in Texts :
                          get_reply(session, t).session.state # "REJECTED"

\* a session in FESTIVAL_STORY that one insufficient answer rejects
C5_Witness ==
    \E session_id \in DOMAIN sessions :
        /\ sessions[session_id].state = "FESTIVAL_STORY"
        /\ Transcribed(YesFresher) \in Rejecting(session_id)

(***************************************************************************)
(* C6.  Terminal states are idempotent: in COMPLETED or REJECTED get_reply *)
(* returns the closing line for any input and changes no field, and no     *)
(* webhook turn changes state, candidate_type, retry_count or answers.     *)
(***************************************************************************)
C6_TerminalIdempotent ==
    \A session_id \in DOMAIN sessions :
        LET session == sessions[session_id]
        IN  session.state \in Terminal =>
                /\ \A t \in Texts :
                       get_reply(session, t) =
                           [session |-> session, reply |-> CLOSING_LINE]
                /\ \A rec \in Recordings, tts \in TtsOutcomes :
                       Core(Turn(session, session_id, rec, tts).session) = Core(session)

\* a terminal session that counted a failure on its way, after a webhook turn
C6_Witness ==
    \E session_id \in DOMAIN sessions :
        /\ sessions[session_id].state \in Terminal
        /\ sessions[session_id].retry_count > 0
        /\ last = Request("twilio_webhook", TRUE)

(***************************************************************************)
(* C7.  A decline at INTEREST_CHECK ends the flow: the response of a turn  *)
(* whose input holds a negative keyword asks for no further recording, and *)
(* no later input moves the session on to EXPERIENCE_CHECK.  The code      *)
(* answers with the decline line, keeps INTEREST_CHECK and records again.  *)
(***************************************************************************)
Declines(t) == ~IsBlank(t) /\ AnyIn(NEGATIVE, Strip(Lower(t)))

HasVerb(response, verb) == \E i \in 1..Len(response) : response[i].verb = verb

C7_DeclineEndsFlow ==
    \A session_id \in DOMAIN sessions :
        sessions[session_id].state = "INTEREST_CHECK" =>
            \A t \in Texts, tts \in TtsOutcomes :
                Declines(t) =>
                    LET turn == Turn(sessions[session_id], session_id,
                                     Transcribed(t), tts)
                    IN  /\ ~HasVerb(turn.response, "Record")
                        /\ \A rec \in Recordings :
                               Turn(turn.session, session_id, rec, tts).session.state
                                   # "EXPERIENCE_CHECK"

(***************************************************************************)
(* C8.  Every webhook turn on a known session ends its response with       *)
(* exactly one continuation directive: a record directive pointing at the  *)
(* webhook with the same session id when the state after the turn is       *)
(* neither COMPLETED nor REJECTED, a hang-up exactly when it is.           *)
(***************************************************************************)
Continuations(response) ==
    { i \in 1..Len(response) : response[i].verb \in {"Record", "Hangup"} }

C8_OneContinuation ==
    \A session_id \in DOMAIN sessions, rec \in Recordings, tts \in TtsOutcomes :
        LET result   == twilio_webhook(sessions, session_id, rec, tts)
            response == result.response
            after    == result.sessions[session_id].state
        IN  /\ Continuations(response) = {Len(response)}
            /\ after \notin Terminal =>
                   response[Len(response)] = Record(session_id)
            /\ after \in Terminal => response[Len(response)] = Hangup

\* a turn has just rejected the candidate: its response hung up
C8_Witness ==
    \E session_id \in DOMAIN sessions :
        /\ sessions[session_id].state = "REJECTED"
        /\ last = Request("twilio_webhook", TRUE)

(***************************************************************************)
(* C9.  A webhook whose session id is absent or not in the registry        *)
(* returns the session-expired directive and touches no state: no session  *)
(* is created, no stored session changes, and neither transcription nor    *)
(* synthesis is attempted.                                                 *)
(***************************************************************************)
C9_UnknownSession ==
    \A session_id \in SessionIds, rec \in Recordings, tts \in TtsOutcomes :
        NotFound(sessions, session_id) =>
            LET result == twilio_webhook(sessions, session_id, rec, tts)
            IN  /\ result.sessions = sessions
                /\ result.response = <<Say(SESSION_EXPIRED)>>
                /\ ~result.stt_called
                /\ ~result.tts_called

\* an unknown id was answered while a session was stored
C9_Witness ==
    /\ sessions # <<>>
    /\ last = Request("twilio_webhook", FALSE)

(***************************************************************************)
(* C10.  Upstream failures are never fatal to a turn: for every            *)
(* transcription outcome and every synthesis outcome the response carries  *)
(* exactly one speech directive with a non-empty prompt (the synthesized   *)
(* audio on success, the same prompt said natively on failure), and state, *)
(* retry_count, candidate_type and answers after the turn do not depend on *)
(* the synthesis outcome.                                                  *)
(***************************************************************************)
Speeches(response) ==
    { i \in 1..Len(response) : response[i].verb \in {"Play", "Say"} }

C10_UpstreamFailures ==
    \A session_id \in DOMAIN sessions, rec \in Recordings, tts \in TtsOutcomes :
        LET turn == Turn(sessions[session_id], session_id, rec, tts)
        IN  /\ Speeches(turn.response) = {1}
            /\ turn.reply # ""
            /\ tts = "ok" => turn.response[1] = Play(AudioUrl(session_id))
            /\ tts # "ok" => turn.response[1] = Say(turn.reply)
            /\ \A other \in TtsOutcomes :
                   Core(Turn(sessions[session_id], session_id, rec, other).session)
                       = Core(turn.session)

\* a turn whose synthesis failed has moved the session on
C10_Witness ==
    \E session_id \in DOMAIN sessions :
        /\ sessions[session_id].current_audio_url = NoUrl
        /\ sessions[session_id].state = "CUSTOMER_STORY"
        /\ last = Request("twilio_webhook", TRUE)

(***************************************************************************)
(* C11.  An empty or whitespace-only transcript in CUSTOMER_STORY or       *)
(* FESTIVAL_STORY is counted like an insufficient answer: for every        *)
(* session of the registry in one of the two states, the state and         *)
(* retry_count after the empty-transcript branch of twilio_webhook equal   *)
(* those get_reply produces from the same session for a non-empty          *)
(* insufficient answer, and answers is unchanged.                          *)
(***************************************************************************)
StoryStates == {"CUSTOMER_STORY", "FESTIVAL_STORY"}

RetryStates == {"CUSTOMER_RETRY", "FESTIVAL_RETRY"}

\* the recordings whose transcript is empty or whitespace only
BlankRecordings == { rec \in Recordings : IsBlank(Transcript(rec)) }

\* the non-empty texts the quality gate rejects
InsufficientTexts == { t \in Texts : ~IsBlank(t) /\ ~QualityOf[t] }

C11_EmptyCountsAsInsufficient ==
    \A session_id \in DOMAIN sessions :
        LET session == sessions[session_id]
        IN  session.state \in StoryStates =>
                \A rec \in BlankRecordings, t \in InsufficientTexts :
                    LET empty        == Turn(session, session_id, rec, "ok").session
                        insufficient == get_reply(session, t).session
                    IN  /\ empty.state = insufficient.state
                        /\ empty.retry_count = insufficient.retry_count
                        /\ empty.answers = session.answers
                        /\ insufficient.answers = session.answers

\* a festival question on its retry after an accepted customer story
C11_Witness ==
    \E session_id \in DOMAIN sessions :
        /\ sessions[session_id].state = "FESTIVAL_RETRY"
        /\ sessions[session_id].retry_count = 1
        /\ last = Request("twilio_webhook", TRUE)

(***************************************************************************)
(* C12.  answers is write-once per key and written only on leaving the     *)
(* question: in every step a stored answer keeps its value, a key that     *)
(* appears is one of qualification, experience, customer_story, festival   *)
(* and appears in the step in which the session leaves the question state  *)
(* of that key for the next question (for the two stories with a text that *)
(* passes the quality gate), and a step that keeps the state, enters a     *)
(* retry state or rejects writes no answer.                                *)
(***************************************************************************)
AnswerKeys == {"qualification", "experience", "customer_story", "festival"}

\* the states in which the answer of a key is asked for
QuestionStates(key) ==
    CASE key = "qualification" -> {"FRESHER_QUALIFICATION"}
      [] key = "experience" -> {"EXP_DETAILS"}
      [] key = "customer_story" -> {"CUSTOMER_STORY", "CUSTOMER_RETRY"}
      [] key = "festival" -> {"FESTIVAL_STORY", "FESTIVAL_RETRY"}

C12_Step ==
    \A session_id \in DOMAIN sessions :
        LET before == sessions[session_id]
            after  == sessions'[session_id]
        IN  /\ \A key \in DOMAIN before.answers :
                  /\ key \in DOMAIN after.answers
                  /\ after.answers[key] = before.answers[key]
            /\ \A key \in DOMAIN after.answers \ DOMAIN before.answers :
                  /\ key \in AnswerKeys
                  /\ before.state \in QuestionStates(key)
                  /\ after.state \notin QuestionStates(key) \cup {"REJECTED"}
                  /\ key \in {"customer_story", "festival"} =>
                         is_valid(after.answers[key])
            /\ (after.state = before.state \/ after.state \in RetryStates
                    \/ after.state = "REJECTED") =>
                   after.answers = before.answers

C12_AnswersWriteOnce == [][C12_Step]_vars

\* a customer story accepted on its second attempt
C12_Witness ==
    \E session_id \in DOMAIN sessions :
        /\ "customer_story" \in DOMAIN sessions[session_id].answers
        /\ "festival" \notin DOMAIN sessions[session_id].answers
        /\ sessions[session_id].retry_count = 1
        /\ sessions[session_id].state = "FESTIVAL_STORY"

(***************************************************************************)
(* get_reply and check_story_quality on their own: a call of one of the    *)
(* two functions is pending, with a session the dialogue can be in and a   *)
(* text, and returns.  sessions holds the session of the call, last the    *)
(* call and, after the return, its result.                                 *)
(***************************************************************************)
\* the narrative texts have up to MaxSentences sentences and MaxWords words
MaxSentences == 9

MaxWords == 51

SentenceCounts == {0, 1} \cup ((MIN_SENTENCES - 1)..MaxSentences)

WordCounts == {0, 1, MIN_SENTENCES + 1} \cup ((MIN_WORDS - 1)..MaxWords)

\* a text of w whitespace-delimited words that reads as s sentences: with no
\* sentence the words are bare question marks; with at least as many sentences
\* as words the first word holds the surplus sentences; otherwise the first
\* sentence holds the surplus words
Compose(s, w) ==
    IF s = 0
    THEN IF w = 0 THEN <<>> ELSE <<"?">> \o Rep(<<" ", "?">>, w - 1)
    ELSE IF s >= w
    THEN Rep(<<"a", "!", "?">>, s - w + 1) \o Rep(<<" ", "a", ".">>, w - 1)
    ELSE Rep(<<"a", " ">>, w - s) \o <<"a", ".">> \o Rep(<<" ", "a", "?">>, s - 1)

\* the narrative texts, each with the sentences and words it was composed of
StoryInputs ==
    { [text |-> Compose(p[1], p[2]), sentences |-> p[1], words |-> p[2]] :
          p \in { q \in SentenceCounts \X WordCounts : q[1] = 0 \/ q[2] > 0 } }

\* an answer to a keyword question, with the keyword sets it holds a member of
\* as a substring once lower-cased and trimmed
Utterance(text, negative, affirmative, fresher, experienced) ==
    [ text |-> text, negative |-> negative, affirmative |-> affirmative,
      fresher |-> fresher, experienced |-> experienced ]

MaybeLater == <<"m", "a", "y", "b", "e", " ", "l", "a", "t", "e", "r">>

NotInterested ==
    <<"N", "o", "t", " ", "I", "n", "t", "e", "r", "e", "s", "t", "e", "d">>

Nope == <<"n", "o", "p", "e">>

Yes == <<" ", "Y", "E", "S", " ", "\n">>

\* "know" holds the negative keyword "no"
IKnowSure == <<"I", " ", "k", "n", "o", "w", ",", " ", "s", "u", "r", "e">>

FresherWorked ==
    <<"F", "r", "e", "s", "h", "e", "r", ",", " ", "w", "o", "r", "k", "e", "d",
      " ", "b", "e", "f", "o", "r", "e">>

AStudent == <<"a", " ", "s", "t", "u", "d", "e", "n", "t">>

Experienced == <<"E", "x", "p", "e", "r", "i", "e", "n", "c", "e", "d">>

Utterances ==
    { Utterance(<<>>, FALSE, FALSE, FALSE, FALSE),
      Utterance(MaybeLater, FALSE, FALSE, FALSE, FALSE),
      Utterance(NotInterested, TRUE, TRUE, FALSE, FALSE),
      Utterance(Nope, TRUE, FALSE, FALSE, FALSE),
      Utterance(Yes, FALSE, TRUE, FALSE, FALSE),
      Utterance(IKnowSure, TRUE, TRUE, FALSE, FALSE),
      Utterance(FresherWorked, FALSE, FALSE, TRUE, TRUE),
      Utterance(AStudent, FALSE, FALSE, TRUE, FALSE),
      Utterance(Experienced, FALSE, FALSE, FALSE, TRUE) }

\* the texts of the calls
CallTexts == { u.text : u \in StoryInputs } \cup { u.text : u \in Utterances }

\* two dialogues with get_reply, turn by turn: a fresher who needs the retry of
\* the customer story and completes, an experienced candidate who fails the
\* festival story twice
Dialogues ==
    { << <<>>, YesFresher, YesFresher, YesFresher, YesFresher, Story, Story >>,
      << <<>>, YesFresher, NotInterestedWorked, Story, Story, YesFresher,
         YesFresher >> }

\* the session after the turns of a dialogue, from a new session
RECURSIVE SessionAfter(_)
SessionAfter(turns) ==
    IF turns = <<>>
    THEN SessionData(None)
    ELSE get_reply(SessionAfter(SubSeq(turns, 1, Len(turns) - 1)),
                   turns[Len(turns)]).session

\* the sessions of the calls: every stage of the two dialogues
CallSessions ==
    { SessionAfter(SubSeq(d, 1, n)) : d \in Dialogues, n \in 0..7 }

Call(name, user_input) ==
    [op |-> "call", name |-> name, user_input |-> user_input, result |-> None]

Return(call, result) == [call EXCEPT !.op = "return", !.result = result]

FunctionInit ==
    /\ twilio_client = TRUE
    /\ \/ /\ sessions = <<>>
          /\ last \in { Call("check_story_quality", t) : t \in CallTexts }
       \/ /\ sessions \in { <<session>> : session \in CallSessions }
          /\ last \in { Call("get_reply", t) : t \in CallTexts }

\* check_story_quality(user_input) returns its verdict
CheckStoryQuality ==
    /\ last.op = "call"
    /\ last.name = "check_story_quality"
    /\ last' = Return(last, check_story_quality(last.user_input))
    /\ UNCHANGED <<sessions, twilio_client>>

\* get_reply(session, user_input) updates the session and returns the prompt
GetReply ==
    /\ last.op = "call"
    /\ last.name = "get_reply"
    /\ LET result == get_reply(sessions[1], last.user_input)
       IN  /\ sessions' = <<result.session>>
           /\ last' = Return(last, result.reply)
    /\ UNCHANGED twilio_client

FunctionNext == CheckStoryQuality \/ GetReply

FunctionSpec == FunctionInit /\ [][FunctionNext]_vars

(***************************************************************************)
(* C13.  get_reply is total on non-terminal states: called on a session in *)
(* any state other than COMPLETED and REJECTED with any text, the empty    *)
(* one included, it returns a non-empty prompt and leaves the session in a *)
(* state of the enumeration.                                               *)
(***************************************************************************)
C13_Step ==
    (last.name = "get_reply" /\ sessions[1].state \notin Terminal) =>
        /\ last'.op = "return"
        /\ last'.result # ""
        /\ last'.result # None
        /\ sessions'[1].state \in ConversationState

C13_GetReplyTotal == [][C13_Step]_vars

\* get_reply has returned from a call with the empty text on a story question
C13_Witness ==
    /\ last.op = "return"
    /\ last.name = "get_reply"
    /\ last.user_input = <<>>
    /\ sessions[1].state = "FESTIVAL_RETRY"

(***************************************************************************)
(* C14.  check_story_quality(text) is true exactly when the text has at    *)
(* least 8 non-empty (after trimming) fragments between runs of '.', '!'   *)
(* and '?', or at least 50 whitespace-delimited words: 8 sentences pass,   *)
(* 50 words pass, 7 sentences with 49 words fail.                          *)
(***************************************************************************)
C14_QualityGate ==
    (last.op = "return" /\ last.name = "check_story_quality") =>
        \A u \in StoryInputs :
            u.text = last.user_input =>
                (last.result <=> (u.sentences >= 8 \/ u.words >= 50))

\* the verdict on 7 sentences in 49 words is in
C14_Witness ==
    /\ last.op = "return"
    /\ last.name = "check_story_quality"
    /\ last.user_input = Compose(7, 49)
    /\ last.result = FALSE

(***************************************************************************)
(* C15.  candidate_type is set once and never reset: a session has no      *)
(* candidate_type exactly while it is in GREETING, INTEREST_CHECK or       *)
(* EXPERIENCE_CHECK; the step that enters FRESHER_QUALIFICATION sets it to *)
(* fresher, the step that enters EXP_DETAILS to experienced, no other step *)
(* sets it, and once set it keeps its value.                               *)
(***************************************************************************)
Untyped == {"GREETING", "INTEREST_CHECK", "EXPERIENCE_CHECK"}

C15_Step ==
    /\ \A session_id \in DOMAIN sessions' :
          sessions'[session_id].candidate_type = None
              <=> sessions'[session_id].state \in Untyped
    /\ \A session_id \in DOMAIN sessions :
          LET before == sessions[session_id]
              after  == sessions'[session_id]
          IN  /\ before.candidate_type # None =>
                     after.candidate_type = before.candidate_type
              /\ (before.state # "FRESHER_QUALIFICATION"
                      /\ after.state = "FRESHER_QUALIFICATION") =>
                     /\ before.candidate_type = None
                     /\ after.candidate_type = "fresher"
              /\ (before.state # "EXP_DETAILS" /\ after.state = "EXP_DETAILS") =>
                     /\ before.candidate_type = None
                     /\ after.candidate_type = "experienced"
              /\ (before.candidate_type = None /\ after.candidate_type # None) =>
                     after.state \in {"FRESHER_QUALIFICATION", "EXP_DETAILS"}

C15_CandidateTypeSetOnce == [][C15_Step]_vars

\* an experienced candidate at the end of the interview
C15_Witness ==
    \E session_id \in DOMAIN sessions :
        /\ sessions[session_id].candidate_type = "experienced"
        /\ "experience" \in DOMAIN sessions[session_id].answers
        /\ sessions[session_id].state \in Terminal

(***************************************************************************)
(* C16.  Keyword classification by get_reply.  In INTEREST_CHECK a text    *)
(* holding a negative keyword gets the decline line and the session keeps  *)
(* every field, also when it holds an affirmative keyword ("Not            *)
(* Interested"); a text holding no keyword of the two sets gets the        *)
(* question asked again and the session keeps every field.  In             *)
(* EXPERIENCE_CHECK a text holding a fresher keyword selects               *)
(* FRESHER_QUALIFICATION, also when it holds an experienced keyword; a     *)
(* text holding no keyword of the two sets gets the question asked again   *)
(* and the session keeps every field.                                      *)
(***************************************************************************)
C16_Step ==
    last.name = "get_reply" =>
        \A u \in Utterances :
            u.text = last.user_input =>
                /\ sessions[1].state = "INTEREST_CHECK" =>
                      /\ u.negative =>
                             /\ last'.result = DECLINE_LINE
                             /\ sessions' = sessions
                      /\ (~u.negative /\ ~u.affirmative) =>
                             /\ last'.result = REASK_INTEREST
                             /\ sessions' = sessions
                /\ sessions[1].state = "EXPERIENCE_CHECK" =>
                      /\ u.fresher =>
                             /\ sessions'[1].state = "FRESHER_QUALIFICATION"
                             /\ sessions'[1].candidate_type = "fresher"
                      /\ (~u.fresher /\ ~u.experienced) =>
                             /\ last'.result = REASK_EXPERIENCE
                             /\ sessions' = sessions

C16_KeywordClassification == [][C16_Step]_vars

\* "Not Interested" was declined
C16_Witness ==
    /\ last.op = "return"
    /\ last.name = "get_reply"
    /\ last.user_input = NotInterested
    /\ last.result = DECLINE_LINE
    /\ sessions[1].state = "INTEREST_CHECK"

(***************************************************************************)
(* Calls in progress side by side: Callers calls have been placed and      *)
(* their webhook turns arrive in any order.                                *)
(***************************************************************************)
Callers == 2

\* what the callers deliver: silence, a short answer, a story
CallerRecordings == {NoRecording, Transcribed(YesFresher), Transcribed(Story)}

CallersInit ==
    /\ twilio_client = TRUE
    /\ sessions \in { [ session_id \in 1..Callers |->
                           NewSession(phone_number, session_id, "ok") ] :
                      phone_number \in PhoneNumbers }
    /\ last = Request("initiate_call", TRUE)

CallersNext ==
    \E session_id \in 1..Callers, rec \in CallerRecordings :
        TwilioWebhook(session_id, rec, "ok")

CallersSpec == CallersInit /\ [][CallersNext]_vars

(***************************************************************************)
(* C17.  Sessions are isolated: a webhook turn for a session changes no    *)
(* field of any other session of the registry, and two turns of different  *)
(* sessions give the same registry in either order, each session being     *)
(* left as by its own turn alone; so any interleaving of the turns of      *)
(* different sessions leaves each session with the state, retry_count,     *)
(* candidate_type and answers of its own turns.                            *)
(***************************************************************************)
C17_Isolated ==
    \A a \in DOMAIN sessions, b \in DOMAIN sessions :
        a # b =>
            \A recA \in CallerRecordings, recB \in CallerRecordings :
                LET afterA  == twilio_webhook(sessions, a, recA, "ok").sessions
                    afterB  == twilio_webhook(sessions, b, recB, "ok").sessions
                    afterAB == twilio_webhook(afterA, b, recB, "ok").sessions
                    afterBA == twilio_webhook(afterB, a, recA, "ok").sessions
                IN  /\ DOMAIN afterA = DOMAIN sessions
                    /\ \A other \in DOMAIN sessions \ {a} :
                           afterA[other] = sessions[other]
                    /\ afterAB = afterBA
                    /\ Core(afterAB[a]) = Core(afterA[a])
                    /\ Core(afterAB[b]) = Core(afterB[b])

\* one call is over while the other still waits for its first answer
C17_Witness ==
    /\ Len(sessions) >= 2
    /\ sessions[1].state = "COMPLETED"
    /\ sessions[2].state = "INTEREST_CHECK"
    /\ last = Request("twilio_webhook", TRUE)

(***************************************************************************)
(* C18.  An empty or whitespace-only transcript (no recording, a failed    *)
(* download, a transcription error or a blank text) in any state other     *)
(* than CUSTOMER_STORY and FESTIVAL_STORY is answered with the generic     *)
(* didn't-catch-that prompt, get_reply is not consulted, and state,        *)
(* retry_count, candidate_type and answers are unchanged.                  *)
(***************************************************************************)
C18_BlankElsewhere ==
    \A session_id \in DOMAIN sessions :
        LET session == sessions[session_id]
        IN  session.state \notin StoryStates =>
                \A rec \in BlankRecordings, tts \in TtsOutcomes :
                    LET turn == Turn(session, session_id, rec, tts)
                    IN  /\ ConversationFlow(session, Transcript(rec)) =
                               [session |-> session, reply |-> DIDNT_CATCH]
                        /\ turn.reply = DIDNT_CATCH
                        /\ turn.reply # get_reply(session, Transcript(rec)).reply
                        /\ Core(turn.session) = Core(session)

\* a webhook turn left a session at the experience question
C18_Witness ==
    \E session_id \in DOMAIN sessions :
        /\ sessions[session_id].state = "EXPERIENCE_CHECK"
        /\ last = Request("twilio_webhook", TRUE)

(***************************************************************************)
(* C19.  initiate_call consumes the GREETING transition: no session of the *)
(* registry is in GREETING; the first webhook of a call (no recording, the *)
(* session still at INTEREST_CHECK) is answered with the didn't-catch-that *)
(* prompt and a record directive and leaves the session as it was; and no  *)
(* webhook turn replies with the opening pitch, nor says it when the       *)
(* prompt is spoken natively.                                              *)
(***************************************************************************)
C19_GreetingConsumed ==
    \A session_id \in DOMAIN sessions :
        LET session == sessions[session_id]
        IN  /\ session.state # "GREETING"
            /\ \A rec \in Recordings :
                   LET turn == Turn(session, session_id, rec, "non_success")
                   IN  /\ turn.reply # OPENING_PITCH
                       /\ \A i \in 1..Len(turn.response) :
                              turn.response[i] # Say(OPENING_PITCH)
            /\ session.state = "INTEREST_CHECK" =>
                   \A tts \in TtsOutcomes :
                       LET first == Turn(session, session_id, NoRecording, tts)
                       IN  /\ first.reply = DIDNT_CATCH
                           /\ first.response[Len(first.response)] = Record(session_id)
                           /\ Core(first.session) = Core(session)

\* a call has just been placed: its session waits for the first webhook
C19_Witness ==
    \E session_id \in DOMAIN sessions :
        /\ sessions[session_id].state = "INTEREST_CHECK"
        /\ last = Request("initiate_call", TRUE)

(***************************************************************************)
(* C20.  An empty transcript never rejects a candidate who is on a retry:  *)
(* for a session in CUSTOMER_RETRY or FESTIVAL_RETRY a webhook turn with   *)
(* an empty or whitespace-only transcript keeps state and retry_count and  *)
(* asks for another recording, and so does the turn after it: a call that  *)
(* delivers only empty transcripts stays in the retry state and reaches    *)
(* neither COMPLETED nor REJECTED.                                         *)
(***************************************************************************)
C20_BlankOnRetry ==
    \A session_id \in DOMAIN sessions :
        LET session == sessions[session_id]
        IN  session.state \in RetryStates =>
                \A rec \in BlankRecordings, tts \in TtsOutcomes :
                    LET turn == Turn(session, session_id, rec, tts)
                    IN  /\ turn.session.state = session.state
                        /\ turn.session.retry_count = session.retry_count
                        /\ turn.session.state \notin Terminal
                        /\ turn.response[Len(turn.response)] = Record(session_id)
                        /\ Core(Turn(turn.session, session_id, rec, tts).session)
                               = Core(session)

\* a webhook turn left a session on the retry of the customer story
C20_Witness ==
    \E session_id \in DOMAIN sessions :
        /\ sessions[session_id].state = "CUSTOMER_RETRY"
        /\ last = Request("twilio_webhook", TRUE)

(***************************************************************************)
(* C21.  What the terminal states say about answers, for every session     *)
(* driven through initiate_call and twilio_webhook: a COMPLETED session    *)
(* holds customer_story and festival, both passing check_story_quality,    *)
(* and exactly one of qualification (candidate_type fresher) and           *)
(* experience (candidate_type experienced), and none of its answers is     *)
(* blank; a REJECTED session holds no festival answer.                     *)
(***************************************************************************)
C21_TerminalAnswers ==
    \A session_id \in DOMAIN sessions :
        LET session == sessions[session_id]
            answers == session.answers
        IN  /\ session.state = "COMPLETED" =>
                   /\ {"customer_story", "festival"} \subseteq DOMAIN answers
                   /\ check_story_quality(answers["customer_story"])
                   /\ check_story_quality(answers["festival"])
                   /\ session.candidate_type \in {"fresher", "experienced"}
                   /\ session.candidate_type = "fresher" =>
                          /\ "qualification" \in DOMAIN answers
                          /\ "experience" \notin DOMAIN answers
                   /\ session.candidate_type = "experienced" =>
                          /\ "experience" \in DOMAIN answers
                          /\ "qualification" \notin DOMAIN answers
                   /\ \A key \in DOMAIN answers : ~IsBlank(answers[key])
            /\ session.state = "REJECTED" => "festival" \notin DOMAIN answers

\* a fresher completed the interview without using a retry
C21_Witness ==
    \E session_id \in DOMAIN sessions :
        /\ sessions[session_id].state = "COMPLETED"
        /\ sessions[session_id].candidate_type = "fresher"
        /\ sessions[session_id].retry_count = 0
        /\ last = Request("twilio_webhook", TRUE)

====
